---- MODULE Spec2Model ----
(***************************************************************************)
(* Student registration: field-level encryption (encryption.py), the       *)
(* duplicate scan of StudentRegistrationForm (forms.py) and the            *)
(* register_student view (views.py).                                       *)
(*                                                                         *)
(* A Python str is a sequence of one-character strings; a bytes value is a *)
(* sequence of byte numbers.  A Fernet token is kept symbolically: its     *)
(* ciphertext and its HMAC name the key and the data they were computed    *)
(* from, so a token opens only under the key that made it.                 *)
(***************************************************************************)
EXTENDS Integers, Sequences, FiniteSets, TLC

----------------------------------------------------------------------------
(* Bounds of the model *)

MaxStudents == 2      \* rows the student table may hold
MaxKeygen == 7        \* Fernet.generate_key() calls in one process run

----------------------------------------------------------------------------
(* Python str / bytes primitives *)

\* ord(c) for the characters that occur in the inputs
Ord(c) ==
  CASE c = " " -> 32 [] c = "(" -> 40 [] c = ")" -> 41 [] c = "-" -> 45
    [] c = "." -> 46 [] c = "0" -> 48 [] c = "1" -> 49 [] c = "2" -> 50
    [] c = "3" -> 51 [] c = "4" -> 52 [] c = "5" -> 53 [] c = "6" -> 54
    [] c = "7" -> 55 [] c = "8" -> 56 [] c = "9" -> 57 [] c = "@" -> 64
    [] c = "A" -> 65 [] c = "B" -> 66 [] c = "X" -> 88
    [] c = "a" -> 97 [] c = "b" -> 98 [] c = "i" -> 105 [] c = "l" -> 108
    [] c = "o" -> 111 [] c = "x" -> 120

\* chr(n), the inverse of ord
Chr(n) ==
  CASE n = 32 -> " " [] n = 40 -> "(" [] n = 41 -> ")" [] n = 45 -> "-"
    [] n = 46 -> "." [] n = 48 -> "0" [] n = 49 -> "1" [] n = 50 -> "2"
    [] n = 51 -> "3" [] n = 52 -> "4" [] n = 53 -> "5" [] n = 54 -> "6"
    [] n = 55 -> "7" [] n = 56 -> "8" [] n = 57 -> "9" [] n = 64 -> "@"
    [] n = 65 -> "A" [] n = 66 -> "B" [] n = 88 -> "X"
    [] n = 97 -> "a" [] n = 98 -> "b" [] n = 105 -> "i" [] n = 108 -> "l"
    [] n = 111 -> "o" [] n = 120 -> "x"

\* str.encode('utf-8') on ASCII text: one byte per character
Utf8Encode(s) == [i \in 1..Len(s) |-> Ord(s[i])]

\* bytes.decode('utf-8') on ASCII bytes
Utf8Decode(b) == [i \in 1..Len(b) |-> Chr(b[i])]

IsDigit(c) == c \in {"0", "1", "2", "3", "4", "5", "6", "7", "8", "9"}

IsSpace(c) == c = " "

IsUpper(c) == c \in {"A", "B", "X"}

\* str.lower(): A-Z to a-z, everything else unchanged
Lower(s) == [i \in 1..Len(s) |-> IF IsUpper(s[i]) THEN Chr(Ord(s[i]) + 32) ELSE s[i]]

RECURSIVE LStrip(_)
LStrip(s) == IF s # <<>> /\ IsSpace(Head(s)) THEN LStrip(Tail(s)) ELSE s

RECURSIVE RStrip(_)
RStrip(s) ==
  IF s # <<>> /\ IsSpace(s[Len(s)]) THEN RStrip(SubSeq(s, 1, Len(s) - 1)) ELSE s

\* str.strip()
Strip(s) == RStrip(LStrip(s))

\* ''.join(filter(str.isdigit, s))
digits_only(s) == SelectSeq(s, IsDigit)

----------------------------------------------------------------------------
(* encryption.py: key provider and Fernet cipher *)

\* settings.ENCRYPTION_KEY: "" is unset or empty, "K1" a valid Fernet key,
\* "malformed" a value Fernet() refuses
SettingsKeys == {"", "K1", "malformed"}

ConfiguredKeyBytes(name) == [src |-> name, n |-> 0]

\* Fernet.generate_key(): the n-th key generated in this run; 32 fresh random
\* bytes, so it equals no other key
generate_key(n) == [src |-> "generate_key", n |-> n]

\* get_encryption_key(): gen is the number of keys generated so far
get_encryption_key(settings_key, gen) ==
  IF settings_key # ""
    THEN [key |-> ConfiguredKeyBytes(settings_key), gen |-> gen]
    ELSE [key |-> generate_key(gen + 1), gen |-> gen + 1]

\* Fernet(key) raises ValueError unless key is 32 url-safe base64 bytes
FernetKeyValid(key) == key.src # "malformed"

FernetVersion == 128

AES(key, iv, data) == [key |-> key, iv |-> iv, data |-> data]

HMAC(key, version, iv, ciphertext) ==
  [key |-> key, version |-> version, iv |-> iv, ciphertext |-> ciphertext]

\* bytes of a token: version 1, timestamp 8, iv 16, the plaintext padded to
\* whole AES blocks (PKCS7 always adds at least one byte), hmac 32
TokenLen(data) == 57 + 16 * ((Len(data) \div 16) + 1)

\* urlsafe base64 writes n bytes as 6-bit characters; when n is no multiple of
\* 3 the last character before the "=" padding has low bits that carry no data
B64SpareBits(n) == CASE n % 3 = 1 -> 4 [] n % 3 = 2 -> 2 [] OTHER -> 0

\* the values the spare bits of a token can take; the encoder writes 0
B64Spare(token) == 0..(2 ^ B64SpareBits(TokenLen(token[3].data)) - 1)

\* Fernet.encrypt: urlsafe_b64encode(version || timestamp,iv || ciphertext ||
\* hmac); the fifth component is the spare bits of the base64 text
fernet_encrypt(key, iv, data) ==
  <<FernetVersion, iv, AES(key, iv, data),
    HMAC(key, FernetVersion, iv, AES(key, iv, data)), 0>>

\* Fernet.decrypt accepting a token without verifying its HMAC
fernet_valid_unauthenticated(key, token) ==
  /\ Len(token) = 5
  /\ token[1] = FernetVersion
  /\ token[3].key = key

\* Fernet.decrypt: urlsafe_b64decode drops the spare bits whatever they are,
\* then the version byte and the HMAC are verified before the ciphertext is
\* opened; anything else is InvalidToken
fernet_valid(key, token) ==
  /\ Len(token) = 5
  /\ token[1] = FernetVersion
  /\ token[4] = HMAC(key, token[1], token[2], token[3])
  /\ token[3].key = key

fernet_decrypt(key, token) == token[3].data

EmptyBlob == <<>>

\* encrypt_data with the value trimmed before it is encrypted
encrypt_data_stripped(data, settings_key, gen, iv) ==
  IF data = <<>>
    THEN [raised |-> FALSE, blob |-> EmptyBlob, gen |-> gen]
    ELSE LET k == get_encryption_key(settings_key, gen) IN
         IF ~FernetKeyValid(k.key)
           THEN [raised |-> TRUE, blob |-> EmptyBlob, gen |-> k.gen]
           ELSE [raised |-> FALSE,
                 blob |-> fernet_encrypt(k.key, iv, Utf8Encode(Strip(data))),
                 gen |-> k.gen]

\* encrypt_data(data): raised is the ValueError of Fernet(key)
encrypt_data(data, settings_key, gen, iv) ==
  IF data = <<>>
    THEN [raised |-> FALSE, blob |-> EmptyBlob, gen |-> gen]
    ELSE LET k == get_encryption_key(settings_key, gen) IN
         IF ~FernetKeyValid(k.key)
           THEN [raised |-> TRUE, blob |-> EmptyBlob, gen |-> k.gen]
           ELSE [raised |-> FALSE,
                 blob |-> fernet_encrypt(k.key, iv, Utf8Encode(data)),
                 gen |-> k.gen]

\* decrypt_data handing the empty blob to Fernet like any other
decrypt_data_no_sentinel(encrypted_data, settings_key, gen) ==
  LET k == get_encryption_key(settings_key, gen) IN
  IF FernetKeyValid(k.key) /\ fernet_valid(k.key, encrypted_data)
    THEN [raised |-> FALSE,
          value |-> Utf8Decode(fernet_decrypt(k.key, encrypted_data)),
          gen |-> k.gen]
    ELSE [raised |-> TRUE, value |-> <<>>, gen |-> k.gen]

\* decrypt_data(encrypted_data): raised is ValueError("Decryption failed: ...")
decrypt_data(encrypted_data, settings_key, gen) ==
  IF encrypted_data = EmptyBlob
    THEN [raised |-> FALSE, value |-> <<>>, gen |-> gen]
    ELSE LET k == get_encryption_key(settings_key, gen) IN
         IF FernetKeyValid(k.key) /\ fernet_valid(k.key, encrypted_data)
           THEN [raised |-> FALSE,
                 value |-> Utf8Decode(fernet_decrypt(k.key, encrypted_data)),
                 gen |-> k.gen]
           ELSE [raised |-> TRUE, value |-> <<>>, gen |-> k.gen]

\* hash_for_comparison without the normalisation
hash_for_comparison_raw(data) == [sha256 |-> Utf8Encode(data)]

\* hash_for_comparison(data): forms.py and tests.py import it from
\* encryption.py, which does not define it.  Taken from its uses: SHA-256 of
\* the lower-cased, trimmed value; the digest names its preimage, i.e. SHA-256
\* is taken to be collision free
hash_for_comparison(data) == [sha256 |-> Utf8Encode(Lower(Strip(data)))]

----------------------------------------------------------------------------
(* forms.py: StudentRegistrationForm *)

\* a cleaned_data entry that is absent (cleaned_data.get returns None)
None == <<"None">>

NoError == "ok"

\* a field declared without max_length
NoMaxLength == 0

\* CharField.clean: strip, required check, max_length validator
CharFieldClean(raw, required, max_length) ==
  LET value == Strip(raw) IN
  IF value = <<>>
    THEN IF required THEN [error |-> "required", value |-> None]
                     ELSE [error |-> NoError, value |-> <<>>]
    ELSE IF max_length # NoMaxLength /\ Len(value) > max_length
           THEN [error |-> "max_length", value |-> None]
           ELSE [error |-> NoError, value |-> value]

\* positions of "@" in s
AtPositions(s) == {i \in 1..Len(s) : s[i] = "@"}

\* django EmailValidator: one "@" between a non-empty user part and a domain
\* part with a dot inside it, over letters, digits, "." and "-" only
IsWellFormedEmail(s) ==
  /\ Cardinality(AtPositions(s)) = 1
  /\ \A i \in 1..Len(s) :
       s[i] = "@" \/ s[i] = "." \/ s[i] = "-" \/ IsDigit(s[i])
         \/ Ord(s[i]) \in 65..90 \/ Ord(s[i]) \in 97..122
  /\ LET at == CHOOSE i \in AtPositions(s) : TRUE IN
       /\ at > 1
       /\ s[1] # "." /\ s[at - 1] # "."
       /\ \E d \in (at + 2)..(Len(s) - 2) : s[d] = "."
       /\ s[at + 1] \notin {".", "-"}
       /\ s[Len(s)] \notin {".", "-"}

\* EmailField.clean: CharField.clean, then the email validator
EmailFieldClean(raw) ==
  LET c == CharFieldClean(raw, TRUE, NoMaxLength) IN
  IF c.error # NoError THEN c
  ELSE IF ~IsWellFormedEmail(c.value) THEN [error |-> "invalid", value |-> None]
  ELSE c

MinMobileDigits == 10

\* the state of one full_clean(): cleaned_data, errors, the keys generated so
\* far and the warnings logged by the duplicate scans
NewForm(gen) ==
  [cleaned |-> [name |-> None, email |-> None, mobile |-> None, student_class |-> None],
   errors |-> [name |-> NoError, email |-> NoError, mobile |-> NoError,
               student_class |-> NoError, non_field |-> NoError],
   gen |-> gen,
   warnings |-> 0]

\* the loop of clean_mobile hashing the stored mobile as it is, punctuation
\* included
RECURSIVE ScanMobileRaw(_, _, _, _, _, _)
ScanMobileRaw(existing_students, i, mobile_hash, settings_key, gen, warnings) ==
  IF i > Len(existing_students)
    THEN [duplicate |-> FALSE, gen |-> gen, warnings |-> warnings]
    ELSE LET d == decrypt_data(existing_students[i].mobile, settings_key, gen) IN
         IF d.raised
           THEN ScanMobileRaw(existing_students, i + 1, mobile_hash, settings_key,
                              d.gen, warnings + 1)
           ELSE IF hash_for_comparison(d.value) = mobile_hash
                  THEN [duplicate |-> TRUE, gen |-> d.gen, warnings |-> warnings]
                  ELSE ScanMobileRaw(existing_students, i + 1, mobile_hash,
                                     settings_key, d.gen, warnings)

\* the loop of clean_mobile over existing_students, from row i on
RECURSIVE ScanMobile(_, _, _, _, _, _)
ScanMobile(existing_students, i, mobile_hash, settings_key, gen, warnings) ==
  IF i > Len(existing_students)
    THEN [duplicate |-> FALSE, gen |-> gen, warnings |-> warnings]
    ELSE LET d == decrypt_data(existing_students[i].mobile, settings_key, gen) IN
         IF d.raised
           THEN ScanMobile(existing_students, i + 1, mobile_hash, settings_key,
                           d.gen, warnings + 1)
           ELSE IF hash_for_comparison(digits_only(d.value)) = mobile_hash
                  THEN [duplicate |-> TRUE, gen |-> d.gen, warnings |-> warnings]
                  ELSE ScanMobile(existing_students, i + 1, mobile_hash,
                                  settings_key, d.gen, warnings)

\* the loop of clean_email leaving after the first row
RECURSIVE ScanEmailFirstRow(_, _, _, _, _, _)
ScanEmailFirstRow(existing_students, i, email_hash, settings_key, gen, warnings) ==
  IF i > Len(existing_students) \/ i > 1
    THEN [duplicate |-> FALSE, gen |-> gen, warnings |-> warnings]
    ELSE LET d == decrypt_data(existing_students[i].email, settings_key, gen) IN
         IF d.raised
           THEN ScanEmailFirstRow(existing_students, i + 1, email_hash, settings_key,
                                  d.gen, warnings + 1)
           ELSE IF hash_for_comparison(Lower(Strip(d.value))) = email_hash
                  THEN [duplicate |-> TRUE, gen |-> d.gen, warnings |-> warnings]
                  ELSE ScanEmailFirstRow(existing_students, i + 1, email_hash,
                                         settings_key, d.gen, warnings)

\* the loop of clean_email with "break" in place of "continue": the scan ends
\* at the first row that fails to decrypt
RECURSIVE ScanEmailBreak(_, _, _, _, _, _)
ScanEmailBreak(existing_students, i, email_hash, settings_key, gen, warnings) ==
  IF i > Len(existing_students)
    THEN [duplicate |-> FALSE, gen |-> gen, warnings |-> warnings]
    ELSE LET d == decrypt_data(existing_students[i].email, settings_key, gen) IN
         IF d.raised
           THEN [duplicate |-> FALSE, gen |-> d.gen, warnings |-> warnings + 1]
           ELSE IF hash_for_comparison(Lower(Strip(d.value))) = email_hash
                  THEN [duplicate |-> TRUE, gen |-> d.gen, warnings |-> warnings]
                  ELSE ScanEmailBreak(existing_students, i + 1, email_hash,
                                      settings_key, d.gen, warnings)

\* the loop of clean_email over existing_students, from row i on
RECURSIVE ScanEmail(_, _, _, _, _, _)
ScanEmail(existing_students, i, email_hash, settings_key, gen, warnings) ==
  IF i > Len(existing_students)
    THEN [duplicate |-> FALSE, gen |-> gen, warnings |-> warnings]
    ELSE LET d == decrypt_data(existing_students[i].email, settings_key, gen) IN
         IF d.raised
           THEN ScanEmail(existing_students, i + 1, email_hash, settings_key,
                          d.gen, warnings + 1)
           ELSE IF hash_for_comparison(Lower(Strip(d.value))) = email_hash
                  THEN [duplicate |-> TRUE, gen |-> d.gen, warnings |-> warnings]
                  ELSE ScanEmail(existing_students, i + 1, email_hash,
                                 settings_key, d.gen, warnings)

\* the loop of clean() over existing_students, from row i on: both fields of
\* a row are decrypted inside one try block
RECURSIVE ScanBoth(_, _, _, _, _, _, _)
ScanBoth(existing_students, i, email_hash, mobile_hash, settings_key, gen, warnings) ==
  IF i > Len(existing_students)
    THEN [duplicate |-> FALSE, gen |-> gen, warnings |-> warnings]
    ELSE LET de == decrypt_data(existing_students[i].email, settings_key, gen) IN
         IF de.raised
           THEN ScanBoth(existing_students, i + 1, email_hash, mobile_hash,
                         settings_key, de.gen, warnings + 1)
           ELSE LET dm == decrypt_data(existing_students[i].mobile, settings_key, de.gen) IN
                IF dm.raised
                  THEN ScanBoth(existing_students, i + 1, email_hash, mobile_hash,
                                settings_key, dm.gen, warnings + 1)
                  ELSE IF /\ hash_for_comparison(Lower(Strip(de.value))) = email_hash
                          /\ hash_for_comparison(digits_only(dm.value)) = mobile_hash
                         THEN [duplicate |-> TRUE, gen |-> dm.gen, warnings |-> warnings]
                         ELSE ScanBoth(existing_students, i + 1, email_hash,
                                       mobile_hash, settings_key, dm.gen, warnings)

\* field "name": CharField(max_length=255, required=True)
CleanNameField(form, data) ==
  LET c == CharFieldClean(data.name, TRUE, 255) IN
  [form EXCEPT !.cleaned.name = c.value, !.errors.name = c.error]

\* field "email": EmailField(required=True), then clean_email()
clean_email(form, data, existing_students, settings_key) ==
  LET c == EmailFieldClean(data.email) IN
  IF c.error # NoError
    THEN [form EXCEPT !.errors.email = c.error]
    ELSE LET normalized_email == Lower(Strip(c.value))
             scan == ScanEmail(existing_students, 1,
                               hash_for_comparison(normalized_email),
                               settings_key, form.gen, form.warnings)
         IN IF scan.duplicate
              THEN [form EXCEPT !.errors.email = "email_already_registered",
                                !.gen = scan.gen, !.warnings = scan.warnings]
              ELSE [form EXCEPT !.cleaned.email = normalized_email,
                                !.gen = scan.gen, !.warnings = scan.warnings]

\* clean_mobile with "<=" in place of "<" in the digit count
clean_mobile_off_by_one(form, data, existing_students, settings_key) ==
  LET c == CharFieldClean(data.mobile, TRUE, 20) IN
  IF c.error # NoError
    THEN [form EXCEPT !.errors.mobile = c.error]
    ELSE IF Len(digits_only(c.value)) <= MinMobileDigits
      THEN [form EXCEPT !.errors.mobile = "min_digits"]
      ELSE LET scan == ScanMobile(existing_students, 1,
                                  hash_for_comparison(digits_only(c.value)),
                                  settings_key, form.gen, form.warnings)
           IN IF scan.duplicate
                THEN [form EXCEPT !.errors.mobile = "mobile_already_registered",
                                  !.gen = scan.gen, !.warnings = scan.warnings]
                ELSE [form EXCEPT !.cleaned.mobile = c.value,
                                  !.gen = scan.gen, !.warnings = scan.warnings]

\* clean_mobile looking for the mobile in the table before it counts the digits
clean_mobile_scan_first(form, data, existing_students, settings_key) ==
  LET c == CharFieldClean(data.mobile, TRUE, 20) IN
  IF c.error # NoError
    THEN [form EXCEPT !.errors.mobile = c.error]
    ELSE LET scan == ScanMobile(existing_students, 1,
                                hash_for_comparison(digits_only(c.value)),
                                settings_key, form.gen, form.warnings) IN
         IF scan.duplicate
           THEN [form EXCEPT !.errors.mobile = "mobile_already_registered",
                             !.gen = scan.gen, !.warnings = scan.warnings]
         ELSE IF Len(digits_only(c.value)) < MinMobileDigits
           THEN [form EXCEPT !.errors.mobile = "min_digits",
                             !.gen = scan.gen, !.warnings = scan.warnings]
         ELSE [form EXCEPT !.cleaned.mobile = c.value,
                           !.gen = scan.gen, !.warnings = scan.warnings]

\* field "mobile": CharField(max_length=20, required=True), then clean_mobile()
clean_mobile(form, data, existing_students, settings_key) ==
  LET c == CharFieldClean(data.mobile, TRUE, 20) IN
  IF c.error # NoError
    THEN [form EXCEPT !.errors.mobile = c.error]
    ELSE IF Len(digits_only(c.value)) < MinMobileDigits
      THEN [form EXCEPT !.errors.mobile = "min_digits"]
      ELSE LET scan == ScanMobile(existing_students, 1,
                                  hash_for_comparison(digits_only(c.value)),
                                  settings_key, form.gen, form.warnings)
           IN IF scan.duplicate
                THEN [form EXCEPT !.errors.mobile = "mobile_already_registered",
                                  !.gen = scan.gen, !.warnings = scan.warnings]
                ELSE [form EXCEPT !.cleaned.mobile = c.value,
                                  !.gen = scan.gen, !.warnings = scan.warnings]

\* field "student_class": CharField(max_length=100, required=False)
CleanClassField(form, data) ==
  LET c == CharFieldClean(data.student_class, FALSE, 100) IN
  [form EXCEPT !.cleaned.student_class = c.value, !.errors.student_class = c.error]

\* clean(): the cross-field check, run after every field was cleaned
clean(form, existing_students, settings_key) ==
  IF form.cleaned.email \in {None, <<>>} \/ form.cleaned.mobile \in {None, <<>>}
    THEN form
    ELSE LET scan == ScanBoth(existing_students, 1,
                              hash_for_comparison(Lower(Strip(form.cleaned.email))),
                              hash_for_comparison(digits_only(form.cleaned.mobile)),
                              settings_key, form.gen, form.warnings)
         IN IF scan.duplicate
              THEN [form EXCEPT !.errors.non_field = "combined_duplicate",
                                !.gen = scan.gen, !.warnings = scan.warnings]
              ELSE [form EXCEPT !.gen = scan.gen, !.warnings = scan.warnings]

\* BaseForm.full_clean() against one reading of the table: the fields in
\* declaration order, then clean()
full_clean(data, existing_students, settings_key, gen) ==
  clean(CleanClassField(
          clean_mobile(
            clean_email(CleanNameField(NewForm(gen), data),
                        data, existing_students, settings_key),
            data, existing_students, settings_key),
          data),
        existing_students, settings_key)

\* form.is_valid()
is_valid(form) ==
  /\ form.errors.name = NoError
  /\ form.errors.email = NoError
  /\ form.errors.mobile = NoError
  /\ form.errors.student_class = NoError
  /\ form.errors.non_field = NoError

----------------------------------------------------------------------------
(* Inputs *)

\* the server workers that may handle requests at the same time
Workers == {"w1", "w2"}

LongName == [i \in 1..256 |-> "a"]

LongClass == [i \in 1..101 |-> "X"]

Names == {<<>>, <<" ">>, <<"A", "l">>, LongName}

EmailA == <<"a", "@", "x", ".", "i", "o">>

EmailAUpper == <<" ", "A", "@", "X", ".", "i", "o", " ">>

EmailB == <<"b", "@", "x", ".", "i", "o">>

Emails == {<<>>, <<"a", "b">>, EmailA, EmailAUpper, EmailB}

Mobile1 == <<"9", "8", "7", "6", "5", "4", "3", "2", "1", "0">>

Mobile1Formatted ==
  <<" ", "(", "9", "8", "7", ")", " ", "6", "5", "4", "-", "3", "2", "1", "0", " ">>

Mobile1Long ==
  <<"9", "-", "8", "-", "7", "-", "6", "-", "5", "-", "4", "-", "3", "-", "2",
    "-", "1", "-", "0", "-", "-">>

Mobile2 == <<"1", "1", "1", "1", "1", "1", "1", "1", "1", "1">>

\* eleven characters, nine of them digits
Mobile9Digits == <<"9", "8", "7", "-", "6", "5", "4", "-", "3", "2", "1">>

Mobiles == {Mobile9Digits, Mobile1, Mobile1Formatted, Mobile1Long, Mobile2}

Classes == {<<>>, <<"X">>, LongClass}

\* request.POST: every email with every mobile under a good name, and every
\* name and every class under a good email and mobile
PostData ==
  [name : {<<"A", "l">>}, email : Emails, mobile : Mobiles, student_class : {<<>>}]
  \cup [name : Names, email : {EmailB}, mobile : {Mobile2}, student_class : {<<>>}]
  \cup [name : {<<"A", "l">>}, email : {EmailB}, mobile : {Mobile2}, student_class : Classes]

\* the orders in which a SELECT without ORDER BY may return n rows
Orders(n) == {f \in [1..n -> 1..n] : \A i, j \in 1..n : f[i] = f[j] => i = j}

\* Student.objects.all() as returned in the given order
QueryAll(table, order) == [i \in 1..Len(table) |-> table[order[i]]]

\* a row written by an earlier deployment whose key "K0" is no longer
\* configured
LegacyRow ==
  [id |-> 1, name |-> <<"A", "l">>,
   email |-> fernet_encrypt(ConfiguredKeyBytes("K0"), 1, Utf8Encode(EmailA)),
   mobile |-> fernet_encrypt(ConfiguredKeyBytes("K0"), 1, Utf8Encode(Mobile1)),
   student_class |-> <<>>]

InitialTables == {<<>>, <<LegacyRow>>}

----------------------------------------------------------------------------
(* State *)

VARIABLES
  settings_key,    \* settings.ENCRYPTION_KEY of this process run
  keygen,          \* number of keys Fernet.generate_key() has produced
  urandom,         \* number of IVs os.urandom has produced; each one is fresh
  student,         \* the student table, rows in insertion order
  auto_increment,  \* the id the next INSERT gets
  session,         \* request.session of the browser
  response,        \* the response most recently returned
  request,         \* the request each worker is handling (interleaved runs)
  test_value,      \* EncryptionTestCase: the value under test
  encrypted,       \* EncryptionTestCase: result of encrypt_data
  decrypted,       \* EncryptionTestCase: result of decrypt_data
  hash1,           \* EncryptionTestCase: result of hash_for_comparison
  tampered,        \* decrypt_data of the encrypted blob with one part changed
  mail,            \* the send_mail calls made so far, oldest first
  display          \* what the admin changelist or view_students last showed

vars ==
  <<settings_key, keygen, urandom, student, auto_increment, session, response, request,
    test_value, encrypted, decrypted, hash1, tampered, mail, display>>

testVars == <<test_value, encrypted, decrypted, hash1, tampered>>

EmptySession ==
  [registration_id |-> 0, student_email |-> None, student_name |-> None,
   student_class |-> None]

NoResponse ==
  [status |-> 0, page |-> "", errors |-> NewForm(0).errors,
   message |-> "", warnings |-> 0]

Idle == [pc |-> "idle", data |-> [name |-> <<>>, email |-> <<>>, mobile |-> <<>>,
                                  student_class |-> <<>>],
         form |-> NewForm(0)]

NotEncrypted ==
  [ran |-> FALSE, raised |-> FALSE, blob |-> EmptyBlob, key |-> ConfiguredKeyBytes("")]

NotDecrypted ==
  [ran |-> FALSE, raised |-> FALSE, value |-> <<>>, key |-> ConfiguredKeyBytes("")]

NotHashed == [ran |-> FALSE, digest |-> [sha256 |-> <<>>]]

\* nothing listed yet
NoDisplay == [by |-> "", all |-> FALSE, rows |-> <<>>, escaped |-> FALSE]

NotTampered == [ran |-> FALSE, blob |-> EmptyBlob, raised |-> FALSE, value |-> <<>>]

Init ==
  /\ settings_key \in SettingsKeys
  /\ keygen = 0
  /\ urandom = 1
  /\ student \in InitialTables
  /\ auto_increment = Len(student) + 1
  /\ session = EmptySession
  /\ response = NoResponse
  /\ request = [w \in Workers |-> Idle]
  /\ test_value = <<>>
  /\ encrypted = NotEncrypted
  /\ decrypted = NotDecrypted
  /\ hash1 = NotHashed
  /\ tampered = NotTampered
  /\ mail = <<>>
  /\ display = NoDisplay

----------------------------------------------------------------------------------------------------------------------------------------
(* views.py: register_student *)

\* render(request, 'students/register.html', {'form': form})
RenderForm(form, message) ==
  [status |-> 200, page |-> "register", errors |-> form.errors,
   message |-> message, warnings |-> form.warnings]

\* redirect('students:registration_success')
RedirectSuccess(form) ==
  [status |-> 302, page |-> "registration_success", errors |-> form.errors,
   message |-> "Registration successful", warnings |-> form.warnings]

\* the INSERT statement given the plaintext bytes of the email
NewRowPlainEmail(id, form, encrypted_email, encrypted_mobile) ==
  [id |-> id, name |-> form.cleaned.name, email |-> Utf8Encode(form.cleaned.email),
   mobile |-> encrypted_mobile, student_class |-> form.cleaned.student_class]

\* the row the INSERT statement adds
NewRow(id, form, encrypted_email, encrypted_mobile) ==
  [id |-> id, name |-> form.cleaned.name, email |-> encrypted_email,
   mobile |-> encrypted_mobile, student_class |-> form.cleaned.student_class]

\* what one request leaves behind
Outcome(gen, iv, table, next_id, sess, resp) ==
  [keygen |-> gen, urandom |-> iv, student |-> table, auto_increment |-> next_id,
   session |-> sess, response |-> resp]

\* SaveRegistration looking for the email in the table once more before the
\* INSERT
SaveRegistrationRechecked(form, skey, iv, table, next_id, sess) ==
  LET again == ScanEmail(table, 1, hash_for_comparison(form.cleaned.email), skey,
                         form.gen, form.warnings)
      e == encrypt_data(form.cleaned.email, skey, again.gen, iv + 1)
      m == encrypt_data(form.cleaned.mobile, skey, e.gen, iv + 2)
  IN IF again.duplicate \/ e.raised \/ m.raised
       THEN Outcome(IF again.duplicate THEN again.gen
                    ELSE IF e.raised THEN e.gen ELSE m.gen,
                    iv, table, next_id, sess,
                    RenderForm(form, "Registration failed"))
       ELSE Outcome(m.gen, iv + 2,
                    Append(table, NewRow(next_id, form, e.blob, m.blob)),
                    next_id + 1,
                    [registration_id |-> next_id,
                     student_email |-> form.cleaned.email,
                     student_name |-> form.cleaned.name,
                     student_class |-> form.cleaned.student_class],
                    RedirectSuccess(form))

\* the body of "if form.is_valid():" for a validated form: encrypt, INSERT,
\* fill the session, redirect; any exception re-renders the form
SaveRegistration(form, skey, iv, table, next_id, sess) ==
  LET e == encrypt_data(form.cleaned.email, skey, form.gen, iv + 1)
      m == encrypt_data(form.cleaned.mobile, skey, e.gen, iv + 2)
  IN IF e.raised \/ m.raised
       THEN Outcome(IF e.raised THEN e.gen ELSE m.gen, iv, table, next_id, sess,
                    RenderForm(form, "Registration failed"))
       ELSE Outcome(m.gen, iv + 2,
                    Append(table, NewRow(next_id, form, e.blob, m.blob)),
                    next_id + 1,
                    [registration_id |-> next_id,
                     student_email |-> form.cleaned.email,
                     student_name |-> form.cleaned.name,
                     student_class |-> form.cleaned.student_class],
                    RedirectSuccess(form))

\* register_student keeping the submitted name in the session before the form
\* is validated
register_student_eager(data, existing_students, skey, gen, iv, table, next_id, sess) ==
  LET form == full_clean(data, existing_students, skey, gen) IN
  IF is_valid(form)
    THEN SaveRegistration(form, skey, iv, table, next_id, sess)
    ELSE Outcome(form.gen, iv, table, next_id,
                 [sess EXCEPT !.student_name = data.name], RenderForm(form, ""))

\* register_student for a POST of data, the three queries of the form
\* returning existing_students, with no other request in between
register_student(data, existing_students, skey, gen, iv, table, next_id, sess) ==
  LET form == full_clean(data, existing_students, skey, gen) IN
  IF is_valid(form)
    THEN SaveRegistration(form, skey, iv, table, next_id, sess)
    ELSE Outcome(form.gen, iv, table, next_id, sess, RenderForm(form, ""))

\* the effect of a finished request on the state
Commit(out) ==
  /\ out.keygen <= MaxKeygen
  /\ Len(out.student) <= MaxStudents
  /\ keygen' = out.keygen
  /\ urandom' = out.urandom
  /\ student' = out.student
  /\ auto_increment' = out.auto_increment
  /\ session' = out.session
  /\ response' = out.response

RegisterStudentPost(data) ==
  /\ \A w \in Workers : request[w].pc = "idle"
  /\ \E order \in Orders(Len(student)) :
       \E out \in {register_student(data, QueryAll(student, order), settings_key,
                                    keygen, urandom, student, auto_increment,
                                    session)} :
         Commit(out)
  /\ UNCHANGED <<settings_key, request, testVars, mail, display>>

\* the body of "if form.is_valid():" filling the session before the INSERT,
\* which raises
SaveRegistrationSessionFirst(form, skey, iv, table, next_id, sess) ==
  LET e == encrypt_data(form.cleaned.email, skey, form.gen, iv + 1)
      m == encrypt_data(form.cleaned.mobile, skey, e.gen, iv + 2)
  IN IF e.raised \/ m.raised
       THEN Outcome(IF e.raised THEN e.gen ELSE m.gen, iv, table, next_id, sess,
                    RenderForm(form, "Registration failed"))
       ELSE Outcome(m.gen, iv + 2, table, next_id,
                    [registration_id |-> next_id,
                     student_email |-> form.cleaned.email,
                     student_name |-> form.cleaned.name,
                     student_class |-> form.cleaned.student_class],
                    RenderForm(form, "Registration failed"))

\* the body of "if form.is_valid():" when cursor.execute raises (the database
\* refuses the INSERT): the except branch re-renders the form
SaveRegistrationInsertRaises(form, skey, iv, table, next_id, sess) ==
  LET e == encrypt_data(form.cleaned.email, skey, form.gen, iv + 1)
      m == encrypt_data(form.cleaned.mobile, skey, e.gen, iv + 2)
  IN IF e.raised \/ m.raised
       THEN Outcome(IF e.raised THEN e.gen ELSE m.gen, iv, table, next_id, sess,
                    RenderForm(form, "Registration failed"))
       ELSE Outcome(m.gen, iv + 2, table, next_id, sess,
                    RenderForm(form, "Registration failed"))

\* register_student for a POST of data when the database refuses the INSERT
register_student_insert_raises(data, existing_students, skey, gen, iv, table, next_id, sess) ==
  LET form == full_clean(data, existing_students, skey, gen) IN
  IF is_valid(form)
    THEN SaveRegistrationInsertRaises(form, skey, iv, table, next_id, sess)
    ELSE Outcome(form.gen, iv, table, next_id, sess, RenderForm(form, ""))

\* the largest number of IVs followed in one run: a refused INSERT has used
\* two and leaves no row behind
MaxUrandom == 7

RegisterStudentPostInsertRaises(data) ==
  /\ \A w \in Workers : request[w].pc = "idle"
  /\ \E order \in Orders(Len(student)) :
       \E out \in {register_student_insert_raises(
                     data, QueryAll(student, order), settings_key, keygen, urandom,
                     student, auto_increment, session)} :
         /\ out.urandom <= MaxUrandom
         /\ Commit(out)
  /\ UNCHANGED <<settings_key, request, testVars, mail, display>>

\* register_student, any other method: an unbound form is rendered
RegisterStudentGet ==
  /\ \A w \in Workers : request[w].pc = "idle"
  /\ response' = RenderForm(NewForm(keygen), "")
  /\ UNCHANGED <<settings_key, keygen, urandom, student, auto_increment, session,
                 request, testVars, mail, display>>

----------------------------------------------------------------------------
(* views.py: registration_success *)

\* messages.error 'No registration found.', redirect('students:register_student')
RedirectRegister ==
  [status |-> 302, page |-> "register_student", errors |-> NewForm(0).errors,
   message |-> "No registration found.", warnings |-> 0]

\* render(request, 'students/success.html', context)
RenderSuccess(email_sent) ==
  [status |-> 200, page |-> "success", errors |-> NewForm(0).errors,
   message |-> IF email_sent THEN "email_sent" ELSE "email_failed", warnings |-> 0]

\* send_mail with a subject that leaves the registration id out
SendMailCallNoId(registration_id, student_email) ==
  [subject_id |-> 0, recipient_list |-> <<student_email>>]

\* send_mail(subject=f'Registration Confirmation - ID: {registration_id}',
\* recipient_list=[student_email], ...)
SendMailCall(registration_id, student_email) ==
  [subject_id |-> registration_id, recipient_list |-> <<student_email>>]

\* registration_success reading the session without clearing it
registration_success_kept(sess, sent, delivered) ==
  IF sess.registration_id = 0
    THEN [session |-> sess, mail |-> sent, response |-> RedirectRegister]
    ELSE [session |-> sess,
          mail |-> Append(sent, SendMailCall(sess.registration_id, sess.student_email)),
          response |-> RenderSuccess(delivered)]

\* registration_success letting the exception of send_mail out: the request
\* ends as a server error before the session is cleared
registration_success_uncaught(sess, sent, delivered) ==
  IF sess.registration_id = 0
    THEN [session |-> sess, mail |-> sent, response |-> RedirectRegister]
    ELSE [session |-> IF delivered THEN EmptySession ELSE sess,
          mail |-> Append(sent, SendMailCall(sess.registration_id, sess.student_email)),
          response |-> IF delivered THEN RenderSuccess(TRUE)
                       ELSE [RenderSuccess(FALSE) EXCEPT !.status = 500,
                                                          !.page = "server_error"]]

\* registration_success: sess is request.session, sent the send_mail calls made
\* before, delivered whether send_mail returns rather than raises
registration_success(sess, sent, delivered) ==
  IF sess.registration_id = 0
    THEN [session |-> sess, mail |-> sent, response |-> RedirectRegister]
    ELSE [session |-> EmptySession,
          mail |-> Append(sent, SendMailCall(sess.registration_id, sess.student_email)),
          response |-> RenderSuccess(delivered)]

\* the largest number of send_mail calls followed in one run
MaxMail == 3

RegistrationSuccess ==
  /\ \A w \in Workers : request[w].pc = "idle"
  /\ \E delivered \in BOOLEAN :
       \E out \in {registration_success(session, mail, delivered)} :
         /\ Len(out.mail) <= MaxMail
         /\ session' = out.session
         /\ mail' = out.mail
         /\ response' = out.response
  /\ UNCHANGED <<settings_key, keygen, urandom, student, auto_increment, request,
                 testVars, display>>

----------------------------------------------------------------------------
(* admin.py: StudentAdmin; management/commands/view_students.py *)

\* a decrypted value as it is shown
ValueCell(value) == [kind |-> "value", text |-> value]

\* '-' (admin) or 'N/A' (view_students) for a field that is empty
BlankCell == [kind |-> "blank", text |-> <<>>]

\* f'Error: {str(e)}' (admin) or f'Decryption Error: {str(e)}' (view_students)
ErrorCell(prefix) == [kind |-> prefix, text |-> <<>>]

\* StudentAdmin.decrypted_email and decrypted_mobile: each has a try of its own
AdminCell(blob, skey, gen) ==
  IF blob = EmptyBlob
    THEN [cell |-> BlankCell, gen |-> gen]
    ELSE LET d == decrypt_data(blob, skey, gen) IN
         [cell |-> IF d.raised THEN ErrorCell("Error") ELSE ValueCell(d.value),
          gen |-> d.gen]

\* one line of the changelist: list_display
AdminLine(row, skey, gen) ==
  LET e == AdminCell(row.email, skey, gen)
      m == AdminCell(row.mobile, skey, e.gen)
  IN [line |-> [id |-> row.id, name |-> row.name, email |-> e.cell,
                mobile |-> m.cell, student_class |-> row.student_class],
      gen |-> m.gen]

\* the changelist of rows i.. of the queryset, after the lines shown so far
RECURSIVE AdminLines(_, _, _, _, _)
AdminLines(rows, i, skey, gen, shown) ==
  IF i > Len(rows)
    THEN [rows |-> shown, gen |-> gen, escaped |-> FALSE]
    ELSE LET l == AdminLine(rows[i], skey, gen) IN
         AdminLines(rows, i + 1, skey, l.gen, Append(shown, l.line))

\* display_student with a try of its own around each decrypt_data call, as in
\* the admin
display_student_per_field(row, skey, gen) ==
  LET e == IF row.email = EmptyBlob
             THEN [raised |-> FALSE, value |-> <<>>, gen |-> gen]
             ELSE decrypt_data(row.email, skey, gen)
      m == IF row.mobile = EmptyBlob
             THEN [raised |-> FALSE, value |-> <<>>, gen |-> e.gen]
             ELSE decrypt_data(row.mobile, skey, e.gen)
      Cell(blob, d) == IF d.raised THEN ErrorCell("Decryption Error")
                       ELSE IF blob = EmptyBlob THEN BlankCell
                       ELSE ValueCell(d.value)
  IN [line |-> [id |-> row.id, name |-> row.name,
                email |-> Cell(row.email, e), mobile |-> Cell(row.mobile, m),
                student_class |-> row.student_class],
      gen |-> m.gen]

\* Command.display_student: one try around both decrypt_data calls; when
\* either raises both fields are printed as the error
display_student(row, skey, gen) ==
  LET e == IF row.email = EmptyBlob
             THEN [raised |-> FALSE, value |-> <<>>, gen |-> gen]
             ELSE decrypt_data(row.email, skey, gen)
      m == IF row.mobile = EmptyBlob
             THEN [raised |-> FALSE, value |-> <<>>, gen |-> e.gen]
             ELSE decrypt_data(row.mobile, skey, e.gen)
      Cell(blob, d) == IF blob = EmptyBlob THEN BlankCell ELSE ValueCell(d.value)
  IN IF e.raised \/ m.raised
       THEN [line |-> [id |-> row.id, name |-> row.name,
                       email |-> ErrorCell("Decryption Error"),
                       mobile |-> ErrorCell("Decryption Error"),
                       student_class |-> row.student_class],
             gen |-> IF e.raised THEN e.gen ELSE m.gen]
       ELSE [line |-> [id |-> row.id, name |-> row.name,
                       email |-> Cell(row.email, e), mobile |-> Cell(row.mobile, m),
                       student_class |-> row.student_class],
             gen |-> m.gen]

\* the loop of handle with display_student letting the exception out: the
\* command ends at the first record that fails to decrypt
RECURSIVE DisplayStudentsAborting(_, _, _, _, _)
DisplayStudentsAborting(rows, i, skey, gen, shown) ==
  IF i > Len(rows)
    THEN [rows |-> shown, gen |-> gen, escaped |-> FALSE]
    ELSE LET l == display_student(rows[i], skey, gen) IN
         IF l.line.email.kind = "Decryption Error"
           THEN [rows |-> shown, gen |-> l.gen, escaped |-> TRUE]
           ELSE DisplayStudentsAborting(rows, i + 1, skey, l.gen,
                                        Append(shown, l.line))

\* the loop of handle: "for student in students: self.display_student(student)"
RECURSIVE DisplayStudents(_, _, _, _, _)
DisplayStudents(rows, i, skey, gen, shown) ==
  IF i > Len(rows)
    THEN [rows |-> shown, gen |-> gen, escaped |-> FALSE]
    ELSE LET l == display_student(rows[i], skey, gen) IN
         DisplayStudents(rows, i + 1, skey, l.gen, Append(shown, l.line))

\* Student.objects.all().order_by('-created'): newest first
NewestFirst(table) == [i \in 1..Len(table) |-> table[Len(table) + 1 - i]]

\* Student.objects.get(id=student_id): the rows with that id
GetById(table, student_id) == SelectSeq(table, LAMBDA row : row.id = student_id)

\* the admin changelist of the whole table, in any order
AdminChangelist ==
  /\ \A w \in Workers : request[w].pc = "idle"
  /\ \E order \in Orders(Len(student)) :
       \E out \in {AdminLines(QueryAll(student, order), 1, settings_key, keygen,
                              <<>>)} :
         /\ out.gen <= MaxKeygen
         /\ keygen' = out.gen
         /\ display' = [by |-> "admin", all |-> TRUE, rows |-> out.rows,
                        escaped |-> out.escaped]
  /\ UNCHANGED <<settings_key, urandom, student, auto_increment, session, response,
                 request, testVars, mail>>

\* manage.py view_students [--id student_id]; student_id 0 is the option left
\* out
ViewStudents(student_id) ==
  /\ \A w \in Workers : request[w].pc = "idle"
  /\ \E out \in {DisplayStudents(IF student_id = 0 THEN NewestFirst(student)
                                    ELSE GetById(student, student_id),
                                  1, settings_key, keygen, <<>>)} :
       /\ out.gen <= MaxKeygen
       /\ keygen' = out.gen
       /\ display' = [by |-> "view_students", all |-> student_id = 0,
                      rows |-> out.rows, escaped |-> out.escaped]
  /\ UNCHANGED <<settings_key, urandom, student, auto_increment, session, response,
                 request, testVars, mail>>

----------------------------------------------------------------------------
(* register_student when workers interleave: each query of the form and the  *)
(* INSERT are separate steps, and another worker may run between them        *)

\* request.POST of the interleaved requests
RacePostData ==
  [name : {<<"A", "l">>}, email : {EmailA, EmailAUpper}, mobile : {Mobile1, Mobile2},
   student_class : {<<>>}]

\* the form of worker w, continuing with the keys generated so far
FormOf(w) == [request[w].form EXCEPT !.gen = keygen]

\* POST arrives: field "name", then field "email" with the query of clean_email
RaceCleanEmail(w, data) ==
  /\ request[w].pc = "idle"
  /\ \E order \in Orders(Len(student)) :
       \E form \in {clean_email(CleanNameField(NewForm(keygen), data), data,
                                QueryAll(student, order), settings_key)} :
         /\ form.gen <= MaxKeygen
         /\ keygen' = form.gen
         /\ request' = [request EXCEPT ![w] =
              [pc |-> "clean_mobile", data |-> data, form |-> form]]
  /\ UNCHANGED <<settings_key, urandom, student, auto_increment, session, response,
                 testVars, mail, display>>

\* field "mobile" with the query of clean_mobile, then field "student_class"
RaceCleanMobile(w) ==
  /\ request[w].pc = "clean_mobile"
  /\ \E order \in Orders(Len(student)) :
       \E form \in {CleanClassField(
                      clean_mobile(FormOf(w), request[w].data,
                                   QueryAll(student, order), settings_key),
                      request[w].data)} :
         /\ form.gen <= MaxKeygen
         /\ keygen' = form.gen
         /\ request' = [request EXCEPT ![w].pc = "clean", ![w].form = form]
  /\ UNCHANGED <<settings_key, urandom, student, auto_increment, session, response,
                 testVars, mail, display>>

\* clean() with its query; an invalid form is rendered again
RaceClean(w) ==
  /\ request[w].pc = "clean"
  /\ \E order \in Orders(Len(student)) :
       \E form \in {clean(FormOf(w), QueryAll(student, order), settings_key)} :
         /\ form.gen <= MaxKeygen
         /\ keygen' = form.gen
         /\ IF is_valid(form)
              THEN /\ request' = [request EXCEPT ![w].pc = "save", ![w].form = form]
                   /\ UNCHANGED response
              ELSE /\ request' = [request EXCEPT ![w] = Idle]
                   /\ response' = RenderForm(form, "")
  /\ UNCHANGED <<settings_key, urandom, student, auto_increment, session, testVars,
                 mail, display>>

\* the body of "if form.is_valid():"
RaceSave(w) ==
  /\ request[w].pc = "save"
  /\ \E out \in {SaveRegistration(FormOf(w), settings_key, urandom, student,
                                  auto_increment, session)} :
       Commit(out)
  /\ request' = [request EXCEPT ![w] = Idle]
  /\ UNCHANGED <<settings_key, testVars, mail, display>>

----------------------------------------------------------------------------
(* tests.py, EncryptionTestCase: encrypt_data, decrypt_data and              *)
(* hash_for_comparison called directly on a value                            *)

\* an address of 32 characters: its token is 105 bytes, a whole number of
\* base64 groups
EmailLong == [i \in 1..27 |-> "a"] \o <<"@", "x", ".", "i", "o">>

TestValues ==
  {<<>>, EmailA, EmailAUpper, EmailB, EmailLong, Mobile1, Mobile1Formatted, Mobile2}

NoKeyUsed == ConfiguredKeyBytes("")

\* the key get_encryption_key returns to a call made now on a non-empty value
KeyUsed(value) ==
  IF value = <<>> THEN NoKeyUsed ELSE get_encryption_key(settings_key, keygen).key

\* encrypted = encrypt_data(self.test_email)
TestEncrypt ==
  /\ ~encrypted.ran
  /\ \E e \in {encrypt_data(test_value, settings_key, keygen, urandom + 1)} :
       /\ e.gen <= MaxKeygen
       /\ keygen' = e.gen
       /\ encrypted' = [ran |-> TRUE, raised |-> e.raised, blob |-> e.blob,
                        key |-> KeyUsed(test_value)]
  /\ urandom' = urandom + 1
  /\ UNCHANGED <<settings_key, student, auto_increment, session, response, request,
                 test_value, decrypted, hash1, tampered, mail, display>>

\* decrypted = decrypt_data(encrypted)
TestDecrypt ==
  /\ encrypted.ran /\ ~encrypted.raised
  /\ ~decrypted.ran
  /\ \E d \in {decrypt_data(encrypted.blob, settings_key, keygen)} :
       /\ d.gen <= MaxKeygen
       /\ keygen' = d.gen
       /\ decrypted' = [ran |-> TRUE, raised |-> d.raised, value |-> d.value,
                        key |-> KeyUsed(encrypted.blob)]
  /\ UNCHANGED <<settings_key, urandom, student, auto_increment, session, response,
                 request, test_value, encrypted, hash1, tampered, mail, display>>

\* hash1 taken from a digest that mixes the configured key into the value
TestHashKeyed ==
  /\ ~hash1.ran
  /\ hash1' = [ran |-> TRUE,
               digest |-> [sha256 |-> <<settings_key>>
                                        \o hash_for_comparison(test_value).sha256]]
  /\ UNCHANGED <<settings_key, keygen, urandom, student, auto_increment, session,
                 response, request, test_value, encrypted, decrypted, tampered,
                 mail, display>>

\* hash1 = hash_for_comparison(email1)
TestHash ==
  /\ ~hash1.ran
  /\ hash1' = [ran |-> TRUE, digest |-> hash_for_comparison(test_value)]
  /\ UNCHANGED <<settings_key, keygen, urandom, student, auto_increment, session,
                 response, request, test_value, encrypted, decrypted, tampered,
                 mail, display>>

\* the blobs that differ from token in one place: the version byte, the iv,
\* a ciphertext byte, the hmac, the spare bits of the last base64 character,
\* or a character outside the base64 alphabet, which leaves no token at all
Tamperings(token) ==
  {[token EXCEPT ![1] = FernetVersion + 1],
   [token EXCEPT ![2] = @ + 1],
   [token EXCEPT ![3].data[1] = (@ + 1) % 256],
   [token EXCEPT ![4].iv = @ + 1],
   SubSeq(token, 1, 4)}
    \cup {[token EXCEPT ![5] = spare] : spare \in B64Spare(token) \ {token[5]}}

\* decrypt_data(t) for a blob t that differs from encrypted in one place
TestTamper ==
  /\ encrypted.ran /\ ~encrypted.raised /\ encrypted.blob # EmptyBlob
  /\ ~tampered.ran
  /\ \E t \in Tamperings(encrypted.blob) :
       \E d \in {decrypt_data(t, settings_key, keygen)} :
         /\ d.gen <= MaxKeygen
         /\ keygen' = d.gen
         /\ tampered' = [ran |-> TRUE, blob |-> t, raised |-> d.raised,
                         value |-> d.value]
  /\ UNCHANGED <<settings_key, urandom, student, auto_increment, session, response,
                 request, test_value, encrypted, decrypted, hash1, mail, display>>

----------------------------------------------------------------------------
(* Specifications *)

\* requests handled one at a time, under any key setting, the table possibly
\* holding a row of an earlier deployment
Next ==
  \/ \E data \in PostData : RegisterStudentPost(data)
  \/ RegisterStudentGet

Spec == Init /\ [][Next]_vars

\* the same, with one fixed configured key and an empty table to start with
InitFresh == Init /\ settings_key = "K1" /\ student = <<>>

SpecFresh == InitFresh /\ [][Next]_vars

\* request.POST of a browser that goes on to the success page: a new address
\* in capitals, a second one, a malformed one
MailPostData ==
  [name : {<<"A", "l">>}, email : {EmailAUpper, EmailB, <<"a", "b">>},
   mobile : {Mobile1, Mobile2}, student_class : {<<>>, <<"X">>}]

\* one browser registering and visiting the success page, one request at a
\* time
NextMail ==
  \/ \E data \in MailPostData : RegisterStudentPost(data)
  \/ RegisterStudentGet
  \/ RegistrationSuccess

SpecMail == Init /\ [][NextMail]_vars

\* request.POST of the registrations made while the database may refuse
FailPostData ==
  [name : {<<"A", "l">>}, email : {EmailAUpper, EmailB}, mobile : {Mobile1, Mobile2},
   student_class : {<<>>}]

\* registrations one at a time, each INSERT either accepted or refused by the
\* database
NextFail ==
  \/ \E data \in FailPostData : RegisterStudentPost(data)
  \/ \E data \in FailPostData : RegisterStudentPostInsertRaises(data)

SpecFail == Init /\ [][NextFail]_vars

\* a row written under the configured key "K1" whose mobile blob was damaged
\* in storage
DamagedRow ==
  [id |-> 1, name |-> <<"A", "l">>,
   email |-> fernet_encrypt(ConfiguredKeyBytes("K1"), 1, Utf8Encode(EmailA)),
   mobile |-> [fernet_encrypt(ConfiguredKeyBytes("K1"), 1, Utf8Encode(Mobile1))
                 EXCEPT ![4].iv = @ + 1],
   student_class |-> <<>>]

\* the same row with the email blob damaged instead
DamagedEmailRow ==
  [id |-> 1, name |-> <<"A", "l">>,
   email |-> [fernet_encrypt(ConfiguredKeyBytes("K1"), 1, Utf8Encode(EmailA))
                EXCEPT ![4].iv = @ + 1],
   mobile |-> fernet_encrypt(ConfiguredKeyBytes("K1"), 1, Utf8Encode(Mobile1)),
   student_class |-> <<>>]

AdminTables == InitialTables \cup {<<DamagedRow>>, <<DamagedEmailRow>>}

\* request.POST of the registrations made between two listings
AdminPostData ==
  [name : {<<"A", "l">>}, email : {EmailB}, mobile : {Mobile2, Mobile9Digits},
   student_class : {<<"X">>}]

\* the table as an administrator finds it, listed in the admin and by
\* view_students while registrations go on
InitAdmin ==
  /\ settings_key \in SettingsKeys
  /\ keygen = 0
  /\ urandom = 1
  /\ student \in AdminTables
  /\ auto_increment = Len(student) + 1
  /\ session = EmptySession
  /\ response = NoResponse
  /\ request = [w \in Workers |-> Idle]
  /\ test_value = <<>>
  /\ encrypted = NotEncrypted
  /\ decrypted = NotDecrypted
  /\ hash1 = NotHashed
  /\ tampered = NotTampered
  /\ mail = <<>>
  /\ display = NoDisplay

NextAdmin ==
  \/ \E data \in AdminPostData : RegisterStudentPost(data)
  \/ AdminChangelist
  \/ \E student_id \in 0..MaxStudents : ViewStudents(student_id)

SpecAdmin == InitAdmin /\ [][NextAdmin]_vars

\* requests of two workers interleaved, one fixed configured key
NextRace ==
  \/ \E w \in Workers, data \in RacePostData : RaceCleanEmail(w, data)
  \/ \E w \in Workers : RaceCleanMobile(w)
  \/ \E w \in Workers : RaceClean(w)
  \/ \E w \in Workers : RaceSave(w)

SpecRace == InitFresh /\ [][NextRace]_vars

\* the functions of encryption.py called directly
InitTest ==
  /\ settings_key \in SettingsKeys
  /\ keygen = 0
  /\ urandom = 1
  /\ student = <<>>
  /\ auto_increment = 1
  /\ session = EmptySession
  /\ response = NoResponse
  /\ request = [w \in Workers |-> Idle]
  /\ test_value \in TestValues
  /\ encrypted = NotEncrypted
  /\ decrypted = NotDecrypted
  /\ hash1 = NotHashed
  /\ tampered = NotTampered
  /\ mail = <<>>
  /\ display = NoDisplay

NextTest == TestEncrypt \/ TestDecrypt \/ TestHash \/ TestTamper

SpecTest == InitTest /\ [][NextTest]_vars

----------------------------------------------------------------------------
(* Properties *)

\* what decrypt_data makes of a stored blob under the key in use now
Opened(blob) == decrypt_data(blob, settings_key, keygen)

\* email.lower().strip()
NormalizedEmail(email) == Lower(Strip(email))

\* the stored row decrypts and its email equals the incoming one after
\* lower-casing and trimming
EmailMatches(row, data) ==
  /\ ~Opened(row.email).raised
  /\ NormalizedEmail(Opened(row.email).value) = NormalizedEmail(data.email)

\* the stored row decrypts and its mobile has the digits of the incoming one
MobileMatches(row, data) ==
  /\ ~Opened(row.mobile).raised
  /\ digits_only(Opened(row.mobile).value) = digits_only(data.mobile)

\* the form of a POST of data validated against the table as it is now
Validated(data, order) ==
  full_clean(data, QueryAll(student, order), settings_key, keygen)

Rows == 1..Len(student)

\* C1: for every non-empty string s, decrypt_data(encrypt_data(s)) returns
\* exactly s when both calls ran with the same key
C1_RoundTrip ==
  (decrypted.ran /\ test_value # <<>> /\ decrypted.key = encrypted.key)
    => (~decrypted.raised /\ decrypted.value = test_value)

C1_Witness ==
  /\ decrypted.ran
  /\ test_value = EmailAUpper
  /\ decrypted.key = encrypted.key
  /\ decrypted.value = EmailAUpper

\* C2: with one fixed configured key and an empty table to start with, after
\* any sequence of registrations handled one at a time no two stored rows have
\* emails that are equal after lower-casing and trimming, and no two have
\* mobiles with the same digits
C2_NoDuplicateRows ==
  \A i, j \in Rows :
    i < j =>
      /\ NormalizedEmail(Opened(student[i].email).value)
           # NormalizedEmail(Opened(student[j].email).value)
      /\ digits_only(Opened(student[i].mobile).value)
           # digits_only(Opened(student[j].mobile).value)

C2_Witness ==
  /\ Len(student) = 2
  /\ ~Opened(student[1].email).raised
  /\ ~Opened(student[2].mobile).raised
  /\ response.errors.mobile = "mobile_already_registered"

\* C3: an incoming email that equals the email of a stored, decryptable row
\* after lower-casing and trimming is rejected with the 'already registered'
\* error on the email field, whatever the rest of the submission is
C3_EmailDuplicateRejected ==
  \A data \in PostData : \A order \in Orders(Len(student)) :
    (\E i \in Rows : EmailMatches(student[i], data))
      => Validated(data, order).errors.email = "email_already_registered"

C3_Witness ==
  /\ response.status = 200
  /\ response.errors.email = "email_already_registered"
  /\ response.errors.mobile = "min_digits"

\* C4 as stated: an incoming mobile with the digits of the mobile of a stored,
\* decryptable row is rejected with the 'already registered' error on the
\* mobile field
C4_MobileDuplicateRejected ==
  \A data \in PostData : \A order \in Orders(Len(student)) :
    (\E i \in Rows : MobileMatches(student[i], data))
      => Validated(data, order).errors.mobile = "mobile_already_registered"

\* C4 (amended): an incoming mobile of at most 20 characters after trimming
\* and with at least 10 digits, whose digits are those of the mobile of a
\* stored, decryptable row, is rejected with the 'already registered' error on
\* the mobile field, whatever the rest of the submission is
C4_MobileDuplicateRejectedWithinLength ==
  \A data \in PostData : \A order \in Orders(Len(student)) :
    (/\ Len(Strip(data.mobile)) <= 20
     /\ Len(digits_only(data.mobile)) >= MinMobileDigits
     /\ \E i \in Rows : MobileMatches(student[i], data))
      => Validated(data, order).errors.mobile = "mobile_already_registered"

C4_Witness ==
  /\ response.status = 200
  /\ response.errors.mobile = "mobile_already_registered"
  /\ response.errors.email = "invalid"

\* no stored, decryptable row has the email or the mobile of the submission
NoMatch(data) ==
  \A i \in Rows : ~EmailMatches(student[i], data) /\ ~MobileMatches(student[i], data)

\* C5 as stated: a submission with a non-empty name, a well-formed email and
\* a mobile of at least 10 digits that matches no stored row is valid,
\* whatever the table holds
C5_NoFalseRejection ==
  \A data \in PostData : \A order \in Orders(Len(student)) :
    (/\ data.name # <<>>
     /\ IsWellFormedEmail(Strip(data.email))
     /\ Len(digits_only(data.mobile)) >= MinMobileDigits
     /\ NoMatch(data))
      => is_valid(Validated(data, order))

\* C5 (amended): a submission whose name is not blank and at most 255
\* characters, whose email is well formed, whose mobile has at least 10 digits
\* and at most 20 characters and whose class is at most 100 characters (each
\* after trimming), and that matches no stored row, is valid, whatever the
\* table holds
C5_NoFalseRejectionWithinLengths ==
  \A data \in PostData : \A order \in Orders(Len(student)) :
    (/\ Strip(data.name) # <<>>
     /\ Len(Strip(data.name)) <= 255
     /\ IsWellFormedEmail(Strip(data.email))
     /\ Len(digits_only(data.mobile)) >= MinMobileDigits
     /\ Len(Strip(data.mobile)) <= 20
     /\ Len(Strip(data.student_class)) <= 100
     /\ NoMatch(data))
      => is_valid(Validated(data, order))

C5_Witness ==
  /\ Len(student) = 2
  /\ student[1] = LegacyRow
  /\ settings_key = "K1"
  /\ response.status = 302
  /\ session.registration_id = 2

\* the row fails to decrypt under the key in use now
Undecryptable(row) == Opened(row.email).raised \/ Opened(row.mobile).raised

\* C6: a stored row that fails to decrypt is skipped with a warning and the
\* scan goes on: a different row that decrypts and matches the incoming email
\* or mobile still causes rejection, in whatever order the rows are scanned
C6_BestEffortSkip ==
  \A data \in PostData : \A order \in Orders(Len(student)) :
    \A i, j \in Rows :
      (/\ i # j
       /\ Undecryptable(student[i])
       /\ EmailMatches(student[j], data) \/ MobileMatches(student[j], data))
        => /\ ~is_valid(Validated(data, order))
           /\ (order[1] = i /\ IsWellFormedEmail(Strip(data.email)))
                => Validated(data, order).warnings >= 1

C6_Witness ==
  /\ Len(student) = 2
  /\ Undecryptable(student[1])
  /\ response.status = 200
  /\ response.errors.email = "email_already_registered"
  /\ response.warnings >= 1

\* C7 as stated: when one stored, decryptable row matches both the incoming
\* email and the incoming mobile, the form is rejected with the combined
\* duplicate error
C7_CombinedDuplicateError ==
  \A data \in PostData : \A order \in Orders(Len(student)) :
    (\E i \in Rows : EmailMatches(student[i], data) /\ MobileMatches(student[i], data))
      => Validated(data, order).errors.non_field = "combined_duplicate"

\* C8: the INSERT of register_student does not look at the table again: a
\* worker that has validated its form stores its row whatever the other
\* worker stored in the meantime, so two rows with the same email can be stored
C8_InsertWithoutRecheck ==
  [][\A w \in Workers :
       (request[w].pc = "save" /\ request'[w].pc = "idle")
         => /\ Len(student') = Len(student) + 1
            /\ response'.status = 302]_vars

C8_Witness ==
  \E i, j \in Rows :
    /\ i < j
    /\ ~Opened(student[i].email).raised
    /\ NormalizedEmail(Opened(student[i].email).value)
         = NormalizedEmail(Opened(student[j].email).value)

\* C9 as stated: the key get_encryption_key returns does not change within a
\* run, so a decrypt_data call uses the key of the encrypt_data call before it
C9_KeyStable ==
  (encrypted.ran /\ decrypted.ran /\ test_value # <<>>)
    => decrypted.key = encrypted.key

Decoded(token) == SubSeq(token, 1, 4)

C12_EmptySentinel ==
  test_value = <<>> =>
    /\ keygen = 0
    /\ encrypted.ran => ~encrypted.raised /\ encrypted.blob = EmptyBlob
    /\ decrypted.ran => ~decrypted.raised /\ decrypted.value = <<>>

C12_Witness ==
  /\ test_value = <<>>
  /\ settings_key # "K1"
  /\ encrypted.ran
  /\ decrypted.ran

\* the digest of a value as a function of the value alone
KeyFreeDigest(value) == [sha256 |-> Utf8Encode(NormalizedEmail(value))]

C19_MalformedKeyFatalAtStartup ==
  settings_key = "malformed" =>
    ~encrypted.raised /\ ~decrypted.raised /\ ~tampered.raised

\* the string sealed in a blob, whichever key opens it
Sealed(blob) == Utf8Decode(blob[3].data)

\* the send_mail calls in log made for registration id
MailFor(log, id) == {i \in 1..Len(log) : log[i].subject_id = id}

\* the rows inserted in this run
Inserted == {i \in Rows : student[i] # LegacyRow}

\* the step is a request to registration_success
SuccessRequested == response'.page \in {"success", "register_student"}

\* C13: when the response to a POST is the redirect of a successful
\* registration and the next request is registration_success, that request
\* calls send_mail once, with the id of the inserted record in the subject
\* and the email sealed in that record as the only recipient; no registration
\* ever gets a second call
C13_ConfirmationMailOnSuccess ==
  [][/\ (response.status = 302 /\ response.page = "registration_success"
          /\ SuccessRequested)
       => /\ response'.page = "success"
          /\ Len(mail') = Len(mail) + 1
          /\ mail'[Len(mail')] =
               [subject_id |-> student[Len(student)].id,
                recipient_list |-> <<Sealed(student[Len(student)].email)>>]
     /\ \A i \in Rows : Cardinality(MailFor(mail', student[i].id)) <= 1]_vars

C13_Witness ==
  /\ response.page = "success"
  /\ Len(student) = 2
  /\ student[1] = LegacyRow
  /\ mail = <<[subject_id |-> 2, recipient_list |-> <<EmailA>>]>>

\* C20: after registration_success has rendered the success page the
\* session holds no registration data; a request to registration_success
\* that finds the session without registration data sends no mail and
\* redirects to the registration form; every send_mail call carries the id of
\* a record inserted in this run and no id twice, so there are never more
\* calls than inserted records
C20_SuccessConsumesRegistration ==
  [][/\ response'.page = "success" => session' = EmptySession
     /\ (session = EmptySession /\ SuccessRequested)
          => (response' = RedirectRegister /\ mail' = mail)
     /\ \A c \in 1..Len(mail') :
          /\ \E i \in Inserted' : student'[i].id = mail'[c].subject_id
          /\ Cardinality(MailFor(mail', mail'[c].subject_id)) = 1
     /\ Len(mail') <= Cardinality(Inserted')]_vars

C20_Witness ==
  /\ response = RedirectRegister
  /\ session = EmptySession
  /\ Len(mail) = 1
  /\ Cardinality(Inserted) = 2

\* what register_student makes of a POST of data now, the rows queried in
\* the given order
Registered(data, order) ==
  register_student(data, QueryAll(student, order), settings_key, keygen, urandom,
                   student, auto_increment, session)

\* the blob is a token that verifies under the key it was made with
OpensUnderOwnKey(blob) == Len(blob) = 5 /\ fernet_valid(blob[3].key, blob)

\* C14 as stated: the row register_student inserts holds the email and the
\* mobile as blobs, neither equal to the plaintext bytes, that decrypt under
\* the key they were made with to the submitted email lower-cased and trimmed
\* and to the submitted mobile exactly as entered; name and class are plaintext
C14_StoredAsEntered ==
  \A data \in PostData : \A order \in Orders(Len(student)) :
    LET out == Registered(data, order) IN
    Len(out.student) > Len(student) =>
      LET row == out.student[Len(out.student)] IN
      /\ row.email # Utf8Encode(NormalizedEmail(data.email))
      /\ row.mobile # Utf8Encode(data.mobile)
      /\ OpensUnderOwnKey(row.email)
      /\ OpensUnderOwnKey(row.mobile)
      /\ Sealed(row.email) = NormalizedEmail(data.email)
      /\ Sealed(row.mobile) = data.mobile
      /\ row.name = Strip(data.name)
      /\ row.student_class = Strip(data.student_class)

\* C14 (amended): as above, the mobile decrypting to the submitted mobile with
\* surrounding whitespace trimmed, its punctuation and inner blanks kept
C14_StoredAsCleaned ==
  \A data \in PostData : \A order \in Orders(Len(student)) :
    LET out == Registered(data, order) IN
    Len(out.student) > Len(student) =>
      LET row == out.student[Len(out.student)] IN
      /\ row.email # Utf8Encode(NormalizedEmail(data.email))
      /\ row.mobile # Utf8Encode(Strip(data.mobile))
      /\ OpensUnderOwnKey(row.email)
      /\ OpensUnderOwnKey(row.mobile)
      /\ Sealed(row.email) = NormalizedEmail(data.email)
      /\ Sealed(row.mobile) = Strip(data.mobile)
      /\ row.name = Strip(data.name)
      /\ row.student_class = Strip(data.student_class)

C14_Witness ==
  \E i \in Inserted :
    /\ Opened(student[i].email).value = EmailA
    /\ Opened(student[i].mobile).value = Strip(Mobile1Formatted)
    /\ Strip(Mobile1Formatted) # Mobile1Formatted

\* the response shows a validation error
HasErrors(resp) == \E f \in DOMAIN resp.errors : resp.errors[f] # NoError

\* C15: a POST whose form fails validation is answered with the form, status
\* 200, and leaves the table, the next id, the session and the mail sent as
\* they were
C15_RejectedChangesNothing ==
  [][HasErrors(response')
       => /\ response'.status = 200
          /\ response'.page = "register"
          /\ UNCHANGED <<student, auto_increment, session, mail>>]_vars

C15_Witness ==
  /\ response.status = 200
  /\ response.errors.email = "email_already_registered"
  /\ session.registration_id = auto_increment - 1
  /\ Cardinality(Inserted) = 1

\* the submissions whose mobile has fewer than 10 digits
ShortMobileData == {data \in PostData : Len(digits_only(data.mobile)) < MinMobileDigits}

\* C17: whatever the table holds, a mobile with fewer than 10 digits gets an
\* error on the mobile field, and cleaning the field decrypts no stored
\* record: it generates no key and logs no warning
C17_ShortMobileRejected ==
  \A data \in ShortMobileData : \A order \in Orders(Len(student)) :
    LET before == clean_email(CleanNameField(NewForm(keygen), data), data,
                              QueryAll(student, order), settings_key)
        after == clean_mobile(before, data, QueryAll(student, order), settings_key)
    IN /\ after.errors.mobile # NoError
       /\ after.gen = before.gen
       /\ after.warnings = before.warnings
       /\ Validated(data, order).errors.mobile = after.errors.mobile
       /\ ~is_valid(Validated(data, order))

C17_Witness ==
  /\ response.errors.mobile = "min_digits"
  /\ student = <<LegacyRow>>
  /\ settings_key = ""

\* the stored row a displayed line is about
RowOf(line) == CHOOSE i \in Rows : student[i].id = line.id

\* the line shows its row faithfully: an error string for a field that does
\* not decrypt, the decrypted values when both fields decrypt
ShownRight(line) ==
  LET row == student[RowOf(line)] IN
  /\ line.id = row.id /\ line.name = row.name
  /\ Opened(row.email).raised => line.email.kind \in {"Error", "Decryption Error"}
  /\ Opened(row.mobile).raised => line.mobile.kind \in {"Error", "Decryption Error"}
  /\ (~Opened(row.email).raised /\ ~Opened(row.mobile).raised)
       => /\ line.email = ValueCell(Opened(row.email).value)
          /\ line.mobile = ValueCell(Opened(row.mobile).value)

\* C18: a listing by the admin changelist or by view_students lets no
\* exception out; listing the whole table shows one line for every stored
\* record; a line shows an error string for a field that fails to decrypt
\* and the decrypted values of a record whose fields both decrypt, whatever
\* other records the table holds
C18_NoBatchAborted ==
  [][display' # display
       => /\ ~display'.escaped
          /\ display'.all
               => /\ Len(display'.rows) = Len(student)
                  /\ \A i \in Rows :
                       \E k \in 1..Len(display'.rows) :
                         display'.rows[k].id = student[i].id
          /\ \A k \in 1..Len(display'.rows) : ShownRight(display'.rows[k])]_vars

C18_Witness ==
  /\ display.by = "view_students"
  /\ settings_key = "K1"
  /\ Len(display.rows) = 2
  /\ display.rows[1].email = ValueCell(EmailB)
  /\ display.rows[1].mobile = ValueCell(Mobile2)
  /\ display.rows[2].email.kind = "Decryption Error"
  /\ display.rows[2].id = LegacyRow.id

\* C21: a POST that fails after validation, encrypt_data or the INSERT
\* raising, is answered with the form, status 200 and 'Registration failed',
\* and leaves the session, the table and the mail as they were; under a
\* malformed key, where encrypt_data always raises, the session stays empty
\* and no redirect to the success page is ever returned; whenever
\* registration data is written to the session the same step has inserted the
\* row with that id
C21_FailureWritesNoSession ==
  [][/\ response'.message = "Registration failed"
          => /\ response'.status = 200
             /\ response'.page = "register"
             /\ UNCHANGED <<session, student, auto_increment, mail>>
     /\ settings_key = "malformed"
          => /\ session' = EmptySession
             /\ response'.page # "registration_success"
     /\ (session' # session /\ session'.registration_id # 0)
          => /\ response'.status = 302
             /\ Len(student') = Len(student) + 1
             /\ student'[Len(student')].id = session'.registration_id]_vars

C21_Witness ==
  /\ response.message = "Registration failed"
  /\ settings_key = "K1"
  /\ session.registration_id = 1
  /\ Len(student) = 1
  /\ urandom > 3

\* C22: when send_mail raises in registration_success the success page is
\* still rendered, with email_sent false; the one call for the registration
\* has been made, the session registration data is cleared, and the table
\* still holds the registered row, every row as it was
C22_MailFailureKeepsRegistration ==
  [][response'.message = "email_failed"
       => /\ response'.status = 200
          /\ response'.page = "success"
          /\ session' = EmptySession
          /\ UNCHANGED <<student, auto_increment>>
          /\ \E i \in Rows : student'[i].id = session.registration_id
          /\ mail' = Append(mail, SendMailCall(session.registration_id,
                                               session.student_email))]_vars

C22_Witness ==
  /\ response = RenderSuccess(FALSE)
  /\ session = EmptySession
  /\ Len(mail) = 1
  /\ \E i \in Inserted :
       /\ student[i].id = mail[1].subject_id
       /\ <<Sealed(student[i].email)>> = mail[1].recipient_list

\* C23: in a listing by view_students, a record of which the email or the
\* mobile fails to decrypt has both fields printed as the same 'Decryption
\* Error' string, also when the other field decrypts; a decrypted value is
\* printed only for a record whose fields both decrypt
C23_SharedFailureOutcome ==
  [][(display' # display /\ display'.by = "view_students")
       => \A k \in 1..Len(display'.rows) :
            LET line == display'.rows[k]
                row == student[RowOf(line)]
                failed == Opened(row.email).raised \/ Opened(row.mobile).raised
            IN /\ failed => /\ line.email = ErrorCell("Decryption Error")
                            /\ line.mobile = line.email
               /\ (line.email.kind = "value" \/ line.mobile.kind = "value")
                    => /\ ~failed
                       /\ line.email = ValueCell(Opened(row.email).value)
                       /\ line.mobile = ValueCell(Opened(row.mobile).value)]_vars

C23_Witness ==
  /\ display.by = "view_students"
  /\ settings_key = "K1"
  /\ student = <<DamagedRow>>
  /\ ~Opened(student[1].email).raised
  /\ Len(display.rows) = 1
  /\ display.rows[1].email = ErrorCell("Decryption Error")
  /\ display.rows[1].mobile = ErrorCell("Decryption Error")

====
